---- MODULE Spec2Model ----
(***************************************************************************)
(* State-machine model of weibo/app/models.py: roles and permissions, the  *)
(* follow graph, posts, confirmation / auth tokens and the write-through   *)
(* audit mirror (blockchain.blockChainPut / blockChainDelete).             *)
(*                                                                         *)
(* Primary storage is a relational database reached through SQLAlchemy     *)
(* sessions: a session collects pending changes (its unit of work), every  *)
(* query first flushes them (autoflush), and db.session.commit() makes     *)
(* them visible to the other sessions.  The mirror is written by the       *)
(* handlers themselves, at the place where the code calls it.              *)
(***************************************************************************)
EXTENDS Integers, Sequences, FiniteSets, TLC

(* ------------------------------ bounds --------------------------------- *)

\* Largest number of posts the model creates.
MaxPosts == 2

\* Largest number of pending follow changes in one unit of work.
MaxPending == 2

\* Last instant of the simulated clock (seconds 0..MaxTime).
MaxTime == 3

\* Largest number of signed tokens in circulation.
MaxTokens == 1

\* Largest number of rows in the roles table before update_roles runs.
MaxInitRoles == 2

(* ------------------------- program constants --------------------------- *)

FOLLOW == 1
COMMENT == 2
WRITE_ARTICLES == 4
MODERATE_COMMENTS == 8
ADMINISTER == 128
ADMIN_ALL == 255

\* Python's None, for an id column that holds no value (an object that was
\* never flushed has no primary or foreign key yet).
None == 0

\* User ids, and the database sessions (one per concurrent request).
Ids == {1, 2}
Sessions == {1, 2}
Pairs == Ids \X Ids

\* Dates a generated post may carry (forgery_py.date.date).
PostTimes == {1, 2}

\* Lifetimes, in seconds, a token is signed with.
Expirations == {1, 2}

\* Permission masks: every union of these bits (16 stands for the bits no
\* Permission constant names), and 0xff.
PermBits == {FOLLOW, COMMENT, WRITE_ARTICLES, MODERATE_COMMENTS, 16, ADMINISTER}

VARIABLES
    users,      \* committed users table: id -> [role_id, confirmed, last_seen]
    roles,      \* committed roles table: sequence of rows, row i has id i
    follows,    \* committed follows table: (follower_id, followed_id) -> number of rows
    posts,      \* committed posts table: sequence of rows, row i has id i
    sess,       \* per session: the pending changes of its unit of work
    mirror,     \* audit mirror: set of [key, value]
    mirrorUp,   \* whether the mirror accepts calls
    now,        \* clock, in seconds
    issued,     \* tokens signed with SECRET_KEY so far
    call        \* the last handler call: its arguments, result and mirror calls

vars == <<users, roles, follows, posts, sess, mirror, mirrorUp, now, issued, call>>

(* ------------------------------ helpers -------------------------------- *)

NoToken == [key |-> "none", id |-> None, exp |-> 0, sig |-> FALSE]

NoCall == [op |-> "init", s |-> 0, a |-> 0, b |-> 0, tok |-> NoToken,
           ret |-> "None", val |-> 0, mops |-> <<>>]

MkCall(op, s, a, b, tok, ret, val, mops) ==
    [op |-> op, s |-> s, a |-> a, b |-> b, tok |-> tok,
     ret |-> ret, val |-> val, mops |-> mops]

EmptySess == [fins |-> [p \in Pairs |-> 0], fdel |-> {},
              urows |-> <<>>, rdirty |-> FALSE, rtab |-> <<>>]

\* The mirror after blockChainPut(key, value) / blockChainDelete(key).
blockChainPut(m, key, value) ==
    {e \in m : e.key # key} \cup {[key |-> key, value |-> value]}

blockChainDelete(m, key) == {e \in m : e.key # key}

PutOp(key, value) == [kind |-> "put", key |-> key, value |-> value]
DelOp(key) == [kind |-> "delete", key |-> key, value |-> <<>>]

(* --------------------------- session views ----------------------------- *)

\* Rows of the follows table a query of session s sees for pair p, once the
\* session's pending changes are flushed.
FollowRows(s, p) ==
    (IF p \in sess[s].fdel THEN 0 ELSE follows[p]) + sess[s].fins[p]

\* Flushing the pending inserts of s breaks the composite primary key
\* (follower_id, followed_id): the database raises IntegrityError.
FlushConflict(s) == \E p \in Pairs : FollowRows(s, p) > 1

\* The row of user u as session s sees it.
UserRow(s, u) ==
    IF u \in DOMAIN sess[s].urows THEN sess[s].urows[u] ELSE users[u]

\* The roles table as session s sees it.
RoleTable(s) == IF sess[s].rdirty THEN sess[s].rtab ELSE roles

RECURSIVE RowCount(_, _)
\* Number of rows of the follows table session s sees for the pairs in P.
RowCount(s, P) ==
    IF P = {} THEN 0
    ELSE LET p == CHOOSE p \in P : TRUE
         IN  FollowRows(s, p) + RowCount(s, P \ {p})

\* Number of pending follow changes in the unit of work of s.
Pending(s) ==
    Cardinality({p \in Pairs : sess[s].fins[p] > 0}) + Cardinality(sess[s].fdel)

(* ------------------------------ Follow --------------------------------- *)

Follow_to_blockchain(follower_id, followed_id, timestamp) ==
    [follower_id |-> follower_id, followed_id |-> followed_id,
     timestamp |-> timestamp]

FollowKey(follower_id, followed_id) == <<"follow", follower_id, followed_id>>

is_following_never(s, a, b) == FALSE

is_following(s, a, b) == FollowRows(s, <<a, b>>) >= 1

is_followed_by(s, a, b) == FollowRows(s, <<b, a>>) >= 1

\* db.session.commit(): flush, then make the unit of work of s durable.
CommittedFollows(s) == [p \in Pairs |-> FollowRows(s, p)]

CommittedUsers(s) == [u \in DOMAIN users |-> UserRow(s, u)]

session_add_mutual(ss, p) ==
    [ss EXCEPT !.fins[p] = @ + 1, !.fins[<<p[2], p[1]>>] = 1]

\* db.session.add(f) for a new Follow row of pair p, in unit of work ss.
session_add(ss, p) == [ss EXCEPT !.fins[p] = @ + 1]

session_delete_forgotten(ss, p) == ss

\* db.session.delete(f) for the Follow row of pair p: a row the unit of work
\* inserted itself is taken back, a committed row is marked for deletion.
session_delete(ss, p) ==
    IF ss.fins[p] > 0
    THEN [ss EXCEPT !.fins[p] = @ - 1]
    ELSE [ss EXCEPT !.fdel = @ \cup {p}]

\* User.set_follow(self = a, user = b) in session s.
SetFollow(s, a, b) ==
    /\ a \in DOMAIN users /\ b \in DOMAIN users
    /\ is_following(s, a, b) \/ FlushConflict(s) \/ Pending(s) < MaxPending
    /\ IF FlushConflict(s)
       THEN \* the autoflush of is_following's query fails
            /\ sess' = [sess EXCEPT ![s] = EmptySess]
            /\ call' = MkCall("set_follow", s, a, b, NoToken, "IntegrityError", 0, <<>>)
            /\ UNCHANGED mirror
       ELSE IF is_following(s, a, b)
       THEN /\ call' = MkCall("set_follow", s, a, b, NoToken, "None", 0, <<>>)
            /\ UNCHANGED <<sess, mirror>>
       ELSE \* f = Follow(follower=self, followed=user); db.session.add(f):
            \* f is pending, its columns follower_id, followed_id and
            \* timestamp are unset until the next flush.
            /\ sess' = [sess EXCEPT ![s] = session_add(@, <<a, b>>)]
            /\ IF mirrorUp
               THEN /\ mirror' = blockChainPut(mirror, FollowKey(None, None),
                                     Follow_to_blockchain(None, None, None))
                    /\ call' = MkCall("set_follow", s, a, b, NoToken, "None", 0,
                                   <<PutOp(FollowKey(None, None),
                                           Follow_to_blockchain(None, None, None))>>)
               ELSE /\ call' = MkCall("set_follow", s, a, b, NoToken, "MirrorError", 0, <<>>)
                    /\ UNCHANGED mirror
    /\ UNCHANGED <<users, roles, follows, posts, mirrorUp, now, issued>>

\* User.set_unfollow(self = a, user = b) in session s.
SetUnfollow(s, a, b) ==
    /\ a \in DOMAIN users /\ b \in DOMAIN users
    /\ sess[s].fins[<<a, b>>] > 0 \/ FollowRows(s, <<a, b>>) = 0
          \/ FlushConflict(s) \/ Pending(s) < MaxPending
    /\ IF FlushConflict(s)
       THEN /\ sess' = [sess EXCEPT ![s] = EmptySess]
            /\ call' = MkCall("set_unfollow", s, a, b, NoToken, "IntegrityError", 0, <<>>)
            /\ UNCHANGED mirror
       ELSE IF FollowRows(s, <<a, b>>) = 0
       THEN /\ call' = MkCall("set_unfollow", s, a, b, NoToken, "None", 0, <<>>)
            /\ UNCHANGED <<sess, mirror>>
       ELSE \* db.session.delete(f): f was loaded, so its columns are set
            /\ sess' = [sess EXCEPT ![s] = session_delete(@, <<a, b>>)]
            /\ IF mirrorUp
               THEN /\ mirror' = blockChainDelete(mirror, FollowKey(a, b))
                    /\ call' = MkCall("set_unfollow", s, a, b, NoToken, "None", 0,
                                   <<DelOp(FollowKey(a, b))>>)
               ELSE /\ call' = MkCall("set_unfollow", s, a, b, NoToken, "MirrorError", 0, <<>>)
                    /\ UNCHANGED mirror
    /\ UNCHANGED <<users, roles, follows, posts, mirrorUp, now, issued>>

\* db.session.commit() of the unit of work of s (the end of a request).
Commit(s) ==
    /\ sess[s] # EmptySess
    /\ IF FlushConflict(s)
       THEN /\ call' = MkCall("commit", s, 0, 0, NoToken, "IntegrityError", 0, <<>>)
            /\ UNCHANGED <<users, roles, follows>>
       ELSE /\ follows' = CommittedFollows(s)
            /\ users' = CommittedUsers(s)
            /\ roles' = RoleTable(s)
            /\ call' = MkCall("commit", s, 0, 0, NoToken, "None", 0, <<>>)
    /\ sess' = [sess EXCEPT ![s] = EmptySess]
    /\ UNCHANGED <<posts, mirror, mirrorUp, now, issued>>

\* db.session.rollback(): the unit of work of s is abandoned.
Rollback(s) ==
    /\ sess[s] # EmptySess
    /\ sess' = [sess EXCEPT ![s] = EmptySess]
    /\ call' = MkCall("rollback", s, 0, 0, NoToken, "None", 0, <<>>)
    /\ UNCHANGED <<users, roles, follows, posts, mirror, mirrorUp, now, issued>>

(* ------------------------------- Post ---------------------------------- *)

PostKey(id) == <<"post", id>>

Post_to_blockchain(id, p) ==
    [id |-> id, timestamp |-> p.timestamp, authorID |-> p.author_id]

\* One round of Post.generate_fake_posts: a post of user u, dated ts, is
\* added and committed (with whatever else is pending in s), then mirrored.
CreatePost(s, u, ts) ==
    /\ u \in DOMAIN users
    /\ Len(posts) < MaxPosts
    /\ IF FlushConflict(s)
       THEN /\ call' = MkCall("create_post", s, u, ts, NoToken, "IntegrityError", 0, <<>>)
            /\ UNCHANGED <<users, roles, follows, posts, mirror>>
       ELSE LET p == [author_id |-> u, timestamp |-> ts]
                id == Len(posts) + 1
            IN  /\ posts' = Append(posts, p)
                /\ follows' = CommittedFollows(s)
                /\ users' = CommittedUsers(s)
                /\ roles' = RoleTable(s)
                /\ IF mirrorUp
                   THEN /\ mirror' = blockChainPut(mirror, PostKey(id), Post_to_blockchain(id, p))
                        /\ call' = MkCall("create_post", s, u, ts, NoToken, "None", id,
                                       <<PutOp(PostKey(id), Post_to_blockchain(id, p))>>)
                   ELSE /\ call' = MkCall("create_post", s, u, ts, NoToken, "MirrorError", id, <<>>)
                        /\ UNCHANGED mirror
    /\ sess' = [sess EXCEPT ![s] = EmptySess]
    /\ UNCHANGED <<mirrorUp, now, issued>>

followed_posts_reversed(s, u) ==
    {i \in 1..Len(posts) : \E p \in Pairs :
        /\ FollowRows(s, p) >= 1
        /\ p[1] = posts[i].author_id
        /\ p[2] = u}

\* User.followed_posts: Post JOIN Follow ON Follow.followed_id = Post.author_id
\* WHERE Follow.follower_id = u; the ids of the posts it returns.
followed_posts(s, u) ==
    {i \in 1..Len(posts) : \E p \in Pairs :
        /\ FollowRows(s, p) >= 1
        /\ p[2] = posts[i].author_id
        /\ p[1] = u}

\* The orders in which a query without ORDER BY may return the rows S.
row_orders(S) ==
    {f \in [1..Cardinality(S) -> S] : \A i, j \in 1..Cardinality(S) : f[i] = f[j] => i = j}

\* user.followed_posts.all() for user u in session s: the query is built and
\* run against the tables as they are now; the ids of the posts, in the
\* order the database returns them.
FollowedPosts(s, u) ==
    /\ u \in DOMAIN users
    /\ IF FlushConflict(s)
       THEN /\ sess' = [sess EXCEPT ![s] = EmptySess]
            /\ call' = MkCall("followed_posts", s, u, 0, NoToken, "IntegrityError", <<>>, <<>>)
       ELSE /\ \E rows \in row_orders(followed_posts(s, u)) :
                 call' = MkCall("followed_posts", s, u, 0, NoToken, "None", rows, <<>>)
            /\ UNCHANGED sess
    /\ UNCHANGED <<users, roles, follows, posts, mirror, mirrorUp, now, issued>>

(* ---------------------------- Permission ------------------------------ *)

RECURSIVE BitAnd(_, _)
\* Python's x & y on non-negative integers.
BitAnd(x, y) ==
    IF x = 0 \/ y = 0 THEN 0
    ELSE (x % 2) * (y % 2) + 2 * BitAnd(x \div 2, y \div 2)

RECURSIVE SumOf(_)
SumOf(S) == IF S = {} THEN 0 ELSE LET x == CHOOSE x \in S : TRUE
                                  IN  x + SumOf(S \ {x})

Masks == {SumOf(B) : B \in SUBSET PermBits} \cup {ADMIN_ALL}

\* self.role of user u in session s: the row of the roles table role_id
\* refers to, if there is one.
HasRole(s, u) == UserRow(s, u).role_id \in 1..Len(RoleTable(s))

user_role(s, u) == RoleTable(s)[UserRow(s, u).role_id]

can_any_bit(s, u, permissions) ==
    HasRole(s, u) /\ BitAnd(user_role(s, u).permissions, permissions) # 0

\* User.can(self = u, permissions).
can(s, u, permissions) ==
    HasRole(s, u) /\ BitAnd(user_role(s, u).permissions, permissions) = permissions

\* AnonymousUser.can(permissions).
anonymous_can(permissions) == FALSE

PyBool(v) == IF v THEN "True" ELSE "False"

\* A call of u.can(permissions) in session s.
Can(s, u, permissions) ==
    /\ u \in DOMAIN users
    /\ call' = MkCall("can", s, u, permissions, NoToken,
                      PyBool(can(s, u, permissions)), 0, <<>>)
    /\ UNCHANGED <<users, roles, follows, posts, sess, mirror, mirrorUp, now, issued>>

\* A call of current_user.can(permissions) for a visitor who is not logged in.
AnonymousCan(permissions) ==
    /\ call' = MkCall("anonymous_can", 0, None, permissions, NoToken,
                      PyBool(anonymous_can(permissions)), 0, <<>>)
    /\ UNCHANGED <<users, roles, follows, posts, sess, mirror, mirrorUp, now, issued>>

(* ------------------------------- User ---------------------------------- *)

UserKey(id) == <<"user", id>>

\* User.to_blockchain of user u, whose attributes are those of self: the
\* columns that change in this model, and the counts its queries return in
\* session s.
User_to_blockchain(s, u, self) ==
    [id |-> u,
     role_id |-> self.role_id,
     confrim |-> self.confirmed,
     last_seen |-> self.last_seen,
     postCount |-> Cardinality({i \in 1..Len(posts) : posts[i].author_id = u}),
     followed |-> RowCount(s, {u} \X Ids),
     followers |-> RowCount(s, Ids \X {u})]

(* ------------------------------ tokens --------------------------------- *)

\* Serializer(SECRET_KEY, expires_in).dumps({key: id}) at time `now`.
Dumps(key, id, expires_in) ==
    [key |-> key, id |-> id, exp |-> now + expires_in, sig |-> TRUE]

Loads_unexpiring(tok) ==
    IF ~tok.sig THEN "BadSignature" ELSE "ok"

\* Serializer(SECRET_KEY).loads(token): "ok" when it returns the payload,
\* else the exception it raises.
Loads(tok) ==
    IF ~tok.sig THEN "BadSignature"
    ELSE IF tok.exp < now THEN "SignatureExpired"
    ELSE "ok"

\* Tokens somebody forged: any payload, but no signature made with SECRET_KEY.
Forgeries ==
    {[key |-> k, id |-> i, exp |-> MaxTime + 1, sig |-> FALSE] :
        k \in {"confirm", "id"}, i \in Ids}

\* The tokens a caller can present.
Presentable == issued \cup Forgeries

\* User.generate_confirmation_token(self = u, expiration).
GenerateConfirmationToken(s, u, expiration) ==
    /\ u \in DOMAIN users
    /\ Cardinality(issued) < MaxTokens
    /\ issued' = issued \cup {Dumps("confirm", u, expiration)}
    /\ call' = MkCall("generate_confirmation_token", s, u, expiration,
                      Dumps("confirm", u, expiration), "token", 0, <<>>)
    /\ UNCHANGED <<users, roles, follows, posts, sess, mirror, mirrorUp, now>>

\* User.generate_auth_token(self = u, expiration).
GenerateAuthToken(s, u, expiration) ==
    /\ u \in DOMAIN users
    /\ Cardinality(issued) < MaxTokens
    /\ issued' = issued \cup {Dumps("id", u, expiration)}
    /\ call' = MkCall("generate_auth_token", s, u, expiration,
                      Dumps("id", u, expiration), "token", 0, <<>>)
    /\ UNCHANGED <<users, roles, follows, posts, sess, mirror, mirrorUp, now>>

\* data.get('confirm') for the payload of tok.
PayloadGetConfirm(tok) == IF tok.key = "confirm" THEN tok.id ELSE None

\* db.session.add(self) for user u whose attributes are now `row`: the row
\* is written at the next flush, unless no attribute changed.
session_add_user(ss, u, row) ==
    IF u \notin DOMAIN ss.urows /\ row = users[u]
    THEN ss
    ELSE [ss EXCEPT !.urows = [v \in DOMAIN @ \cup {u} |-> IF v = u THEN row ELSE @[v]]]

set_confirmed_toggle(row) == [row EXCEPT !.confirmed = ~@]

\* self.confirmed = True
set_confirmed(row) == [row EXCEPT !.confirmed = TRUE]

\* User.confirm(self = u, token) in session s.
Confirm(s, u, tok) ==
    /\ u \in DOMAIN users
    /\ tok \in Presentable
    /\ IF Loads(tok) # "ok" \/ PayloadGetConfirm(tok) # u
       THEN /\ call' = MkCall("confirm", s, u, 0, tok, "False", 0, <<>>)
            /\ UNCHANGED <<sess, mirror>>
       ELSE IF FlushConflict(s)
       THEN \* the count queries of to_blockchain flush the unit of work
            /\ sess' = [sess EXCEPT ![s] = EmptySess]
            /\ call' = MkCall("confirm", s, u, 0, tok, "IntegrityError", 0, <<>>)
            /\ UNCHANGED mirror
       ELSE LET self == set_confirmed(UserRow(s, u))
                snapshot == User_to_blockchain(s, u, self)
            IN  /\ sess' = [sess EXCEPT ![s] = session_add_user(@, u, self)]
                /\ IF mirrorUp
                   THEN /\ mirror' = blockChainPut(mirror, UserKey(u), snapshot)
                        /\ call' = MkCall("confirm", s, u, 0, tok, "True", 0,
                                       <<PutOp(UserKey(u), snapshot)>>)
                   ELSE /\ call' = MkCall("confirm", s, u, 0, tok, "MirrorError", 0, <<>>)
                        /\ UNCHANGED mirror
    /\ UNCHANGED <<users, roles, follows, posts, mirrorUp, now, issued>>

\* User.verify_auth_token(token), called in session s.
VerifyAuthToken(s, tok) ==
    /\ tok \in Presentable
    /\ call' =
         IF Loads(tok) # "ok"
         THEN MkCall("verify_auth_token", s, 0, 0, tok, "None", 0, <<>>)
         ELSE IF tok.key # "id"
         THEN \* data['id'] on a payload without that key
              MkCall("verify_auth_token", s, 0, 0, tok, "KeyError", 0, <<>>)
         ELSE IF tok.id \in DOMAIN users
         THEN MkCall("verify_auth_token", s, 0, 0, tok, "User", tok.id, <<>>)
         ELSE MkCall("verify_auth_token", s, 0, 0, tok, "None", 0, <<>>)
    /\ UNCHANGED <<users, roles, follows, posts, sess, mirror, mirrorUp, now, issued>>

set_last_seen_unconfirmed(row, t) == [row EXCEPT !.last_seen = t, !.confirmed = FALSE]

\* self.last_seen = datetime.utcnow()
set_last_seen(row, t) == [row EXCEPT !.last_seen = t]

\* User.update_last_seen(self = u) in session s.
UpdateLastSeen(s, u) ==
    /\ u \in DOMAIN users
    /\ IF FlushConflict(s)
       THEN /\ sess' = [sess EXCEPT ![s] = EmptySess]
            /\ call' = MkCall("update_last_seen", s, u, 0, NoToken, "IntegrityError", 0, <<>>)
            /\ UNCHANGED mirror
       ELSE LET self == set_last_seen(UserRow(s, u), now)
                snapshot == User_to_blockchain(s, u, self)
            IN  /\ sess' = [sess EXCEPT ![s] = session_add_user(@, u, self)]
                /\ IF mirrorUp
                   THEN /\ mirror' = blockChainPut(mirror, UserKey(u), snapshot)
                        /\ call' = MkCall("update_last_seen", s, u, 0, NoToken, "None", 0,
                                       <<PutOp(UserKey(u), snapshot)>>)
                   ELSE /\ call' = MkCall("update_last_seen", s, u, 0, NoToken, "MirrorError", 0, <<>>)
                        /\ UNCHANGED mirror
    /\ UNCHANGED <<users, roles, follows, posts, mirrorUp, now, issued>>

cascade_delete_follower_only(F, u) ==
    [p \in Pairs |-> IF u = p[1] THEN 0 ELSE F[p]]

\* The follows table F after the delete of user u has cascaded over
\* User.followed (rows with follower_id = u) and User.followers (rows with
\* followed_id = u).
cascade_delete(F, u) ==
    [p \in Pairs |-> IF u \in {p[1], p[2]} THEN 0 ELSE F[p]]

\* A user row is deleted and the deletion committed.  The relationships
\* followed and followers cascade ('all, delete-orphan') to the Follow rows
\* of the user; posts has no cascade, so the user's posts lose their author.
DeleteUser(s, u) ==
    /\ u \in DOMAIN users
    /\ ~FlushConflict(s)
    /\ users' = [v \in DOMAIN users \ {u} |-> UserRow(s, v)]
    /\ follows' = cascade_delete(CommittedFollows(s), u)
    /\ posts' = [i \in 1..Len(posts) |->
                    IF posts[i].author_id = u
                    THEN [posts[i] EXCEPT !.author_id = None] ELSE posts[i]]
    /\ roles' = RoleTable(s)
    /\ sess' = [sess EXCEPT ![s] = EmptySess]
    /\ call' = MkCall("delete_user", s, u, 0, NoToken, "None",
                      RowCount(s, {p \in Pairs : u \in {p[1], p[2]}}), <<>>)
    /\ UNCHANGED <<mirror, mirrorUp, now, issued>>

(* --------------------------- User creation ----------------------------- *)

\* current_app.config['FLASK_ADMIN']
FLASK_ADMIN == "admin@example.com"

Emails == {FLASK_ADMIN, "user@example.com"}

Usernames == {"ann", "bob"}

\* Role.query.filter_by(permissions=0xff) on table T: the ids of its rows.
roles_by_permissions(T, permissions) ==
    {i \in 1..Len(T) : T[i].permissions = permissions}

\* Role.query.filter_by(default=True) on table T: the ids of its rows.
roles_by_default(T) == {i \in 1..Len(T) : T[i].default = TRUE}

\* query.first(): one of the rows found (the query has no ORDER BY), or None.
first(found) == IF found = {} THEN {None} ELSE found

\* The roles User.__init__ may assign to a new user with this email, who was
\* given no role: self.role = Role.query.filter_by(...).first()
init_role(T, email) ==
    IF email = FLASK_ADMIN
    THEN first(roles_by_permissions(T, ADMIN_ALL))
    ELSE first(roles_by_default(T))

unique_violation_email_only(U, email, username) ==
    \E v \in DOMAIN U : U[v].email = email

\* The INSERT of a user with this email and username into the rows U breaks
\* a unique index: users.email or users.username.
unique_violation(U, email, username) ==
    \E v \in DOMAIN U : U[v].email = email \/ U[v].username = username

\* The id the database gives to a row inserted into users.
next_user_id(U) ==
    IF DOMAIN U = {} THEN 1
    ELSE 1 + CHOOSE v \in DOMAIN U : \A w \in DOMAIN U : w <= v

\* One round of User.generate_fake_users in session s: a confirmed user with
\* this email and username is constructed, added and committed, then
\* mirrored; an IntegrityError of the commit is caught and rolled back.
CreateUser(s, email, username) ==
    /\ next_user_id(CommittedUsers(s)) \in Ids
          \/ unique_violation(CommittedUsers(s), email, username)
          \/ FlushConflict(s)
    /\ IF FlushConflict(s)
       THEN \* the role query of User.__init__ flushes the unit of work
            /\ call' = MkCall("create_user", s, email, username, NoToken,
                              "IntegrityError", 0, <<>>)
            /\ UNCHANGED <<users, roles, follows, mirror>>
       ELSE IF unique_violation(CommittedUsers(s), email, username)
       THEN \* except IntegrityError: db.session.rollback()
            /\ call' = MkCall("create_user", s, email, username, NoToken,
                              "None", 0, <<>>)
            /\ UNCHANGED <<users, roles, follows, mirror>>
       ELSE \E r \in init_role(RoleTable(s), email) :
            LET id == next_user_id(CommittedUsers(s))
                self == [email |-> email, username |-> username, role_id |-> r,
                         confirmed |-> TRUE, last_seen |-> now]
                snapshot == User_to_blockchain(s, id, self)
            IN  /\ users' = [v \in DOMAIN users \cup {id} |->
                                IF v = id THEN self ELSE CommittedUsers(s)[v]]
                /\ follows' = CommittedFollows(s)
                /\ roles' = RoleTable(s)
                /\ IF mirrorUp
                   THEN /\ mirror' = blockChainPut(mirror, UserKey(id), snapshot)
                        /\ call' = MkCall("create_user", s, email, username, NoToken,
                                          "None", id, <<PutOp(UserKey(id), snapshot)>>)
                   ELSE /\ call' = MkCall("create_user", s, email, username, NoToken,
                                          "MirrorError", id, <<>>)
                        /\ UNCHANGED mirror
    /\ sess' = [sess EXCEPT ![s] = EmptySess]
    /\ UNCHANGED <<posts, mirrorUp, now, issued>>

(* ------------------------------- Role ---------------------------------- *)

BitOr(x, y) == x + y - BitAnd(x, y)

RoleKey(id) == <<"role", id>>

Role_to_blockchain(id, row) ==
    [id |-> id, name |-> row.name, is_default |-> row.default,
     permissions |-> row.permissions]

\* The dict `roles` of Role.update_roles, in the order the loop visits it.
RoleDefs ==
    << [name |-> "User", default |-> TRUE,
        permissions |-> BitOr(BitOr(FOLLOW, COMMENT), WRITE_ARTICLES)],
       [name |-> "Moderator", default |-> FALSE,
        permissions |-> BitOr(BitOr(BitOr(FOLLOW, COMMENT), WRITE_ARTICLES),
                              MODERATE_COMMENTS)],
       [name |-> "Administrator", default |-> FALSE, permissions |-> ADMIN_ALL] >>

\* Role.query.filter_by(name=name).first() on table T: the id of the row
\* found, or None.
first_role_by_name(T, name) ==
    IF \E i \in 1..Len(T) : T[i].name = name
    THEN CHOOSE i \in 1..Len(T) :
            /\ T[i].name = name
            /\ \A j \in 1..Len(T) : T[j].name = name => i <= j
    ELSE None

upsert_role_always_new(T, d) == Append(T, d)

\* One round of the loop of update_roles on table T for entry d of the dict:
\* the row found by name is updated in place, else a new Role is added.
upsert_role(T, d) ==
    IF first_role_by_name(T, d.name) = None
    THEN Append(T, d)
    ELSE [T EXCEPT ![first_role_by_name(T, d.name)] = d]

RECURSIVE upsert_roles(_, _)
\* The table after the rounds for the entries ds.
upsert_roles(T, ds) ==
    IF ds = <<>> THEN T ELSE upsert_roles(upsert_role(T, Head(ds)), Tail(ds))

RECURSIVE role_puts(_, _)
\* The blockChainPut calls of those rounds: a Role that is new in its round
\* has no id yet when it is mirrored.
role_puts(T, ds) ==
    IF ds = <<>> THEN <<>>
    ELSE LET id == first_role_by_name(T, Head(ds).name)
         IN  <<PutOp(RoleKey(id), Role_to_blockchain(id, Head(ds)))>>
             \o role_puts(upsert_role(T, Head(ds)), Tail(ds))

RECURSIVE apply_puts(_, _)
apply_puts(m, ops) ==
    IF ops = <<>> THEN m
    ELSE apply_puts(blockChainPut(m, Head(ops).key, Head(ops).value), Tail(ops))

\* Role.update_roles() in session s.  The loop makes one mirror call per
\* round; `accepted` is the number of those calls the mirror takes: all of
\* them, or fewer when it is down at the start or goes down between two
\* rounds.  The round whose put raises has added its Role to the session;
\* db.session.commit() is reached only after the last round.
UpdateRoles(s, accepted) ==
    /\ accepted \in 0..Len(RoleDefs)
    /\ mirrorUp <=> accepted >= 1
    /\ IF FlushConflict(s)
       THEN \* the autoflush of the first query fails
            /\ accepted \in {0, Len(RoleDefs)}
            /\ sess' = [sess EXCEPT ![s] = EmptySess]
            /\ call' = MkCall("update_roles", s, 0, 0, NoToken, "IntegrityError", 0, <<>>)
            /\ UNCHANGED <<users, roles, follows, mirror, mirrorUp>>
       ELSE IF accepted = Len(RoleDefs)
       THEN /\ roles' = upsert_roles(RoleTable(s), RoleDefs)
            /\ follows' = CommittedFollows(s)
            /\ users' = CommittedUsers(s)
            /\ sess' = [sess EXCEPT ![s] = EmptySess]
            /\ mirror' = apply_puts(mirror, role_puts(RoleTable(s), RoleDefs))
            /\ call' = MkCall("update_roles", s, 0, 0, NoToken, "None", 0,
                              role_puts(RoleTable(s), RoleDefs))
            /\ UNCHANGED mirrorUp
       ELSE \* the put of round accepted + 1 raises
            LET done == SubSeq(RoleDefs, 1, accepted)
                added == SubSeq(RoleDefs, 1, accepted + 1)
            IN  /\ sess' = [sess EXCEPT ![s].rdirty = TRUE,
                                        ![s].rtab = upsert_roles(RoleTable(s), added)]
                /\ mirror' = apply_puts(mirror, role_puts(RoleTable(s), done))
                /\ mirrorUp' = FALSE
                /\ call' = MkCall("update_roles", s, 0, 0, NoToken, "MirrorError", 0,
                                  role_puts(RoleTable(s), done))
                /\ UNCHANGED <<users, roles, follows>>
    /\ UNCHANGED <<posts, now, issued>>

\* The mirror starts or stops accepting calls.
MirrorToggle ==
    /\ mirrorUp' = ~mirrorUp
    /\ call' = MkCall("mirror_toggle", 0, 0, 0, NoToken, "None", 0, <<>>)
    /\ UNCHANGED <<users, roles, follows, posts, sess, mirror, now, issued>>

\* A second passes.
Tick ==
    /\ now < MaxTime
    /\ now' = now + 1
    /\ call' = MkCall("tick", 0, 0, 0, NoToken, "None", 0, <<>>)
    /\ UNCHANGED <<users, roles, follows, posts, sess, mirror, mirrorUp, issued>>

(* --------------------------- specifications ---------------------------- *)

\* The users every specification starts with: no role, not confirmed.
InitUsers == [u \in Ids |-> [role_id |-> None, confirmed |-> FALSE, last_seen |-> 0]]

InitFollow ==
    /\ users = InitUsers
    /\ roles = <<>>
    /\ follows = [p \in Pairs |-> 0]
    /\ posts = <<>>
    /\ sess = [s \in Sessions |-> EmptySess]
    /\ mirror = {}
    /\ mirrorUp = TRUE
    /\ now = 0
    /\ issued = {}
    /\ call = NoCall

NextRace ==
    \/ \E s \in Sessions, a \in Ids, b \in Ids : SetFollow(s, a, b)
    \/ \E s \in Sessions, a \in Ids, b \in Ids : SetUnfollow(s, a, b)
    \/ \E s \in Sessions : Commit(s)
    \/ \E s \in Sessions : Rollback(s)

\* The follow graph under two concurrent sessions.
SpecRace == InitFollow /\ [][NextRace]_vars

NextSeq ==
    \/ \E a \in Ids, b \in Ids : SetFollow(1, a, b)
    \/ \E a \in Ids, b \in Ids : SetUnfollow(1, a, b)
    \/ Commit(1)
    \/ Rollback(1)
    \/ \E u \in Ids, ts \in PostTimes : CreatePost(1, u, ts)

\* The follow graph and the posts, one session.
SpecSeq == InitFollow /\ [][NextSeq]_vars

InitPerm ==
    /\ \E m \in Masks, r \in {None, 1} :
          /\ roles = <<[name |-> "User", default |-> TRUE, permissions |-> m]>>
          /\ users = [u \in Ids |-> [role_id |-> IF u = 1 THEN r ELSE None,
                                      confirmed |-> FALSE, last_seen |-> 0]]
    /\ follows = [p \in Pairs |-> 0]
    /\ posts = <<>>
    /\ sess = [s \in Sessions |-> EmptySess]
    /\ mirror = {}
    /\ mirrorUp = TRUE
    /\ now = 0
    /\ issued = {}
    /\ call = NoCall

NextPerm ==
    \/ \E p \in Masks : Can(1, 1, p)
    \/ \E p \in Masks : AnonymousCan(p)

\* Permission checks against every role mask.
SpecPerm == InitPerm /\ [][NextPerm]_vars

NextToken ==
    \/ \E u \in Ids, e \in Expirations : GenerateConfirmationToken(1, u, e)
    \/ \E u \in Ids, e \in Expirations : GenerateAuthToken(1, u, e)
    \/ \E u \in Ids, tok \in Presentable : Confirm(1, u, tok)
    \/ \E tok \in Presentable : VerifyAuthToken(1, tok)
    \/ \E u \in Ids : DeleteUser(1, u)
    \/ Commit(1)
    \/ Rollback(1)
    \/ Tick

\* Confirmation and auth tokens, one session, a running clock.
SpecToken == InitFollow /\ [][NextToken]_vars

RoleNames == {"User", "Moderator", "Administrator", "Guest"}

\* Role rows a table may hold before update_roles runs.
InitRoleRows == [name : RoleNames, default : BOOLEAN, permissions : {0, 7, ADMIN_ALL}]

\* Role tables of at most MaxInitRoles rows; name is a unique column.
InitRoleTables ==
    {T \in UNION {[1..n -> InitRoleRows] : n \in 0..MaxInitRoles} :
        \A i, j \in 1..Len(T) : T[i].name = T[j].name => i = j}

InitRoles ==
    /\ users = InitUsers
    /\ roles \in InitRoleTables
    /\ follows = [p \in Pairs |-> 0]
    /\ posts = <<>>
    /\ sess = [s \in Sessions |-> EmptySess]
    /\ mirror = {}
    /\ mirrorUp = TRUE
    /\ now = 0
    /\ issued = {}
    /\ call = NoCall

NextRoles == UpdateRoles(1, Len(RoleDefs))

\* update_roles, run and re-run from any role table.
SpecRoles == InitRoles /\ [][NextRoles]_vars

NextFeed ==
    \/ \E b \in Ids : SetFollow(1, 1, b)
    \/ \E b \in Ids : SetUnfollow(1, 1, b)
    \/ Commit(1)
    \/ \E u \in Ids, ts \in PostTimes : CreatePost(1, u, ts)
    \/ FollowedPosts(1, 1)

\* User 1 follows and unfollows, posts are written, and user 1 reads the
\* posts of the users followed.
SpecFeed == InitFollow /\ [][NextFeed]_vars

NextDelete ==
    \/ \E a \in Ids, b \in Ids : SetFollow(1, a, b)
    \/ \E a \in Ids, b \in Ids : SetUnfollow(1, a, b)
    \/ Commit(1)
    \/ Rollback(1)
    \/ \E u \in Ids : DeleteUser(1, u)

\* The follow graph while users are deleted, one session.
SpecDelete == InitFollow /\ [][NextDelete]_vars

NextCore ==
    \/ \E e \in Expirations : GenerateConfirmationToken(1, 1, e)
    \/ \E tok \in Presentable : Confirm(1, 1, tok)
    \/ UpdateLastSeen(1, 1)
    \/ SetFollow(1, 1, 2)
    \/ SetUnfollow(1, 1, 2)
    \/ UpdateRoles(1, Len(RoleDefs))
    \/ Commit(1)
    \/ Rollback(1)
    \/ Tick

\* The handlers user 1 can call, one session, a running clock, the mirror
\* accepting every call.
SpecCore == InitFollow /\ [][NextCore]_vars

\* An installation before its first user and before update_roles has run.
InitCreate ==
    /\ users = <<>>
    /\ roles = <<>>
    /\ follows = [p \in Pairs |-> 0]
    /\ posts = <<>>
    /\ sess = [s \in Sessions |-> EmptySess]
    /\ mirror = {}
    /\ mirrorUp = TRUE
    /\ now = 1
    /\ issued = {}
    /\ call = NoCall

NextCreate ==
    \/ \E email \in Emails, username \in Usernames : CreateUser(1, email, username)
    \/ UpdateRoles(1, Len(RoleDefs))
    \/ \E u \in Ids : DeleteUser(1, u)

\* Users created and deleted, before and after update_roles.
SpecCreate == InitCreate /\ [][NextCreate]_vars

\* A second after the users were created.
InitFault ==
    /\ users = InitUsers
    /\ roles = <<>>
    /\ follows = [p \in Pairs |-> 0]
    /\ posts = <<>>
    /\ sess = [s \in Sessions |-> EmptySess]
    /\ mirror = {}
    /\ mirrorUp = TRUE
    /\ now = 1
    /\ issued = {}
    /\ call = NoCall

NextFault ==
    \/ MirrorToggle
    \/ SetFollow(1, 1, 2)
    \/ SetUnfollow(1, 1, 2)
    \/ GenerateConfirmationToken(1, 1, 2)
    \/ \E tok \in issued : Confirm(1, 1, tok)
    \/ UpdateLastSeen(1, 1)
    \/ \E accepted \in 0..Len(RoleDefs) : UpdateRoles(1, accepted)
    \/ Commit(1)
    \/ Rollback(1)

\* The mutating handlers of one session while the mirror may be down, or go
\* down in the middle of update_roles; confirm is called with the token issued.
SpecFault == InitFault /\ [][NextFault]_vars

(* ------------------------------ claims --------------------------------- *)

\* The last call was handler op of session s with arguments a and b.
Called(c, op, s, a, b) == c.op = op /\ c.s = s /\ c.a = a /\ c.b = b

\* C1: after any sequence of follow and unfollow calls there is at most one
\* edge per ordered pair, in primary storage and in the caller's view; and
\* set_follow(A,B) called while edge (A,B) exists changes no edge and makes
\* no mirror call.
C1_OneEdgePerPair ==
    [][ /\ \A p \in Pairs : follows'[p] <= 1 /\ FollowRows(1, p)' <= 1
        /\ \A a \in Ids, b \in Ids :
              (Called(call', "set_follow", 1, a, b) /\ FollowRows(1, <<a, b>>) >= 1)
              => /\ sess' = sess /\ follows' = follows /\ mirror' = mirror
                 /\ call'.mops = <<>> /\ call'.ret = "None"
      ]_vars

\* C1 witness: set_follow was called on a committed edge and did nothing.
C1_Witness ==
    /\ call.op = "set_follow" /\ call.mops = <<>> /\ call.ret = "None"
    /\ follows[<<call.a, call.b>>] = 1
    /\ sess[1] = EmptySess

\* C2 (as claimed): when two set_follow calls for the same pair race, no
\* call or commit ends in an error (the loser is a no-op) and primary storage
\* holds at most one edge per pair.
C2_RaceLoserIsNoop ==
    /\ \A p \in Pairs : follows[p] <= 1
    /\ call.ret # "IntegrityError"

\* C3: after set_unfollow(A,B) returns there is no edge (A,B) and
\* is_following(A,B) is false, in particular right after set_follow(A,B);
\* and set_unfollow(A,B) without an edge (A,B) raises nothing, changes no
\* edge and makes no mirror call.
C3_FollowUnfollow ==
    [][ \A a \in Ids, b \in Ids :
          Called(call', "set_unfollow", 1, a, b)
          => /\ call'.ret = "None"
             /\ ~is_following(1, a, b)'
             /\ FollowRows(1, <<a, b>>)' = 0
             /\ FollowRows(1, <<a, b>>) = 0
                  => /\ sess' = sess /\ follows' = follows /\ mirror' = mirror
                     /\ call'.mops = <<>>
      ]_vars

\* C3 witness: set_unfollow(A,B) has just removed an edge that was committed.
C3_Witness ==
    /\ call.op = "set_unfollow" /\ call.mops # <<>>
    /\ follows[<<call.a, call.b>>] = 1
    /\ ~is_following(1, call.a, call.b)

\* C4: followed_posts(A) is exactly the posts whose author B has an edge
\* (A,B); after set_follow(A,B) it holds every post of B, after
\* set_unfollow(A,B) none of them.
C4_FollowedPosts ==
    /\ \A u \in Ids :
          followed_posts(1, u) =
              {i \in 1..Len(posts) : is_following(1, u, posts[i].author_id)}
    /\ call.op = "set_follow"
          => \A i \in 1..Len(posts) :
                posts[i].author_id = call.b => i \in followed_posts(1, call.a)
    /\ call.op = "set_unfollow"
          => \A i \in 1..Len(posts) :
                posts[i].author_id = call.b => i \notin followed_posts(1, call.a)

\* C4 witness: a post of B left the feed of A when A unfollowed B.
C4_Witness ==
    /\ call.op = "set_unfollow" /\ call.mops # <<>>
    /\ \E i \in 1..Len(posts) : posts[i].author_id = call.b
    /\ followed_posts(1, call.a) = {}

\* Bit k of the non-negative integer x.
Bit(x, k) == (x \div (2 ^ k)) % 2

\* C5: can(p) is true exactly when the identity has a role and every bit of
\* p is set in role.permissions; without a role, and for the anonymous
\* user, it is false for every p; with permissions 0x07 can(COMMENT) is
\* true, can(MODERATE_COMMENTS) and can(ADMINISTER) are false.
C5_Can ==
    /\ call.op = "can"
         => /\ call.ret = "True"
                <=> /\ users[call.a].role_id # None
                    /\ \A k \in 0..7 :
                          Bit(call.b, k) = 1
                          => Bit(roles[users[call.a].role_id].permissions, k) = 1
            /\ (users[call.a].role_id # None /\ roles[users[call.a].role_id].permissions = 7)
                => /\ call.b = COMMENT => call.ret = "True"
                   /\ call.b = MODERATE_COMMENTS => call.ret = "False"
                   /\ call.b = ADMINISTER => call.ret = "False"
    /\ call.op = "anonymous_can" => call.ret = "False"

\* C5 witness: a user whose role has permissions 0x07 was granted COMMENT.
C5_Witness ==
    /\ call.op = "can" /\ call.b = COMMENT /\ call.ret = "True"
    /\ users[call.a].role_id # None
    /\ roles[users[call.a].role_id].permissions = 7

\* The token carries a signature made with SECRET_KEY, has not expired at
\* time t and names user u under the key `key`.
ValidFor(tok, key, u, t) ==
    tok.sig /\ tok.exp >= t /\ tok.key = key /\ tok.id = u

\* C6: confirm fails closed.  With a token whose signature is invalid, that
\* has expired or that does not carry the user's own id under 'confirm', it
\* returns False, leaves confirmed and every other stored value unchanged and
\* makes no mirror call; with a valid, unexpired token of the user it returns
\* True, sets confirmed and mirrors the updated snapshot.
C6_ConfirmFailsClosed ==
    [][ \A u \in Ids :
          (call'.op = "confirm" /\ call'.a = u)
          => IF ValidFor(call'.tok, "confirm", u, now)
             THEN /\ call'.ret = "True"
                  /\ UserRow(1, u)'.confirmed
                  /\ \E e \in mirror' :
                        /\ e.key = UserKey(u)
                        /\ e.value.id = u /\ e.value.confrim = TRUE
                  /\ Len(call'.mops) = 1
             ELSE /\ call'.ret = "False"
                  /\ call'.mops = <<>>
                  /\ users' = users /\ sess' = sess /\ mirror' = mirror
      ]_vars

\* C6 witness: a token signed for the user with a lifetime of one second was
\* rejected two seconds after it was issued.
C6_Witness ==
    /\ call.op = "confirm" /\ call.ret = "False"
    /\ call.tok.sig /\ call.tok.key = "confirm" /\ call.tok.id = call.a
    /\ call.tok.exp + 1 = now
    /\ ~UserRow(1, call.a).confirmed

\* C7 (as claimed): verify_auth_token never raises; it returns None for every
\* token that is not a valid, unexpired auth token of an existing user, and
\* a user only for such a token.
C7_ResolveNeverRaises ==
    call.op = "verify_auth_token"
    => /\ call.ret \in {"None", "User"}
       /\ call.ret = "User"
            <=> /\ ValidFor(call.tok, "id", call.tok.id, now)
                /\ call.tok.id \in DOMAIN users

\* C8 (as claimed): when a mirror call fails, the handler still returns to
\* its caller without an error, and update_roles still commits its roles.
C8_MirrorFailureTolerated ==
    /\ call.ret # "MirrorError"
    /\ (call.op = "update_roles" /\ ~mirrorUp)
         => \A k \in 1..Len(RoleDefs) : \E i \in 1..Len(roles) : roles[i] = RoleDefs[k]

\* C9: confirm called again with the same unexpired token on a user that is
\* already confirmed returns True and changes nothing: confirmed stays true,
\* no stored value changes and the mirror keeps the same snapshot.
C9_ConfirmAgain ==
    [][ \A u \in Ids :
          ( /\ call'.op = "confirm" /\ call'.a = u
            /\ ValidFor(call'.tok, "confirm", u, now)
            /\ UserRow(1, u).confirmed )
          => /\ call'.ret = "True"
             /\ UserRow(1, u)'.confirmed
             /\ users' = users /\ sess' = sess /\ mirror' = mirror
      ]_vars

\* C9 witness: confirm succeeded on a user whose confirmation was already
\* committed, and the session holds no pending change.
C9_Witness ==
    /\ call.op = "confirm" /\ call.ret = "True"
    /\ users[call.a].confirmed
    /\ sess[1] = EmptySess
    /\ \E e \in mirror : e.key = UserKey(call.a) /\ e.value.confrim = TRUE

\* Table T holds exactly one row named as d, and that row equals d.
ExactlyOne(T, d) ==
    /\ Cardinality({i \in 1..Len(T) : T[i].name = d.name}) = 1
    /\ \E i \in 1..Len(T) : T[i] = d

\* C10: update_roles, from any role table, leaves exactly one role named
\* User (0x07, default), one named Moderator (0x0f) and one named
\* Administrator (0xff); run again, it leaves the table as it is.
C10_UpdateRolesIdempotent ==
    [][ call'.op = "update_roles"
        => /\ ExactlyOne(roles', [name |-> "User", default |-> TRUE, permissions |-> 7])
           /\ ExactlyOne(roles', [name |-> "Moderator", default |-> FALSE, permissions |-> 15])
           /\ ExactlyOne(roles', [name |-> "Administrator", default |-> FALSE, permissions |-> 255])
           /\ call.op = "update_roles" => roles' = roles
      ]_vars

\* C10 witness: update_roles ran a second time, on a table where it had
\* updated one role in place and added others.
C10_Witness ==
    /\ call.op = "update_roles"
    /\ \A k \in 1..3 : call.mops[k].key # RoleKey(None)
    /\ Len(roles) = 4
    /\ roles[1].name = "Guest" /\ roles[2].name = "Moderator"

\* C11 (as claimed): once update_roles has run, from any prior role table,
\* exactly one role is flagged default and it is the role named User.
C11_OneDefaultRole ==
    call.op = "update_roles"
    => /\ Cardinality(roles_by_default(roles)) = 1
       /\ \A i \in roles_by_default(roles) : roles[i].name = "User"

\* C12 (as claimed): a user created without an explicit role has a role: the
\* Administrator role (0xff) if the email is the admin address, else the role
\* flagged default; whether update_roles ran before the creation or not.
C12_RoleAtCreation ==
    (call.op = "create_user" /\ call.val # 0)
    => /\ users[call.val].role_id # None
       /\ users[call.val].role_id \in DOMAIN roles
       /\ IF call.a = FLASK_ADMIN
          THEN roles[users[call.val].role_id].permissions = ADMIN_ALL
          ELSE roles[users[call.val].role_id].default

\* C13: deleting a user deletes every Follow row in which the user is the
\* follower or the followed, stored or pending; the edges between the other
\* users are the ones the caller saw before the deletion.
C13_DeleteCascades ==
    [][ \A u \in Ids :
          Called(call', "delete_user", 1, u, 0)
          => /\ u \notin DOMAIN users'
             /\ \A p \in Pairs :
                   IF u \in {p[1], p[2]}
                   THEN follows'[p] = 0 /\ FollowRows(1, p)' = 0
                   ELSE follows'[p] = FollowRows(1, p)
                          /\ FollowRows(1, p)' = FollowRows(1, p)
      ]_vars

\* C13 witness: the deleted user had an edge as follower and an edge as
\* followed, and an edge between other users is still stored.
C13_Witness ==
    /\ call.op = "delete_user" /\ call.val >= 2
    /\ \E p \in Pairs : call.a \notin {p[1], p[2]} /\ follows[p] = 1
    /\ \A p \in Pairs : call.a \in {p[1], p[2]} => follows[p] = 0

\* C14: emails and usernames are unique among the stored users; creating a
\* user whose email or username an existing user has stores nothing and
\* leaves users, roles, follows, posts and the mirror as they were.
C14_UniqueEmailUsername ==
    [][ /\ \A v, w \in DOMAIN users' :
              (users'[v].email = users'[w].email
                 \/ users'[v].username = users'[w].username) => v = w
        /\ \A e \in Emails, n \in Usernames :
              ( /\ Called(call', "create_user", 1, e, n)
                /\ \E v \in DOMAIN users : users[v].email = e \/ users[v].username = n )
              => /\ UNCHANGED <<users, roles, follows, posts, mirror>>
                 /\ call'.val = 0 /\ call'.mops = <<>>
      ]_vars

\* C14 witness: with a user stored, a creation that reused the username under
\* another email stored nothing.
C14_Witness ==
    /\ call.op = "create_user" /\ call.val = 0
    /\ \E v \in DOMAIN users : users[v].username = call.b /\ users[v].email # call.a
    /\ \A v \in DOMAIN users : users[v].email # call.a

\* C15 (as claimed): the posts followed_posts returns are those of the users
\* followed now, and any two of them come in the order of their timestamps,
\* the later one first.
C15_NewestFirst ==
    (call.op = "followed_posts" /\ call.ret = "None")
    => /\ {call.val[i] : i \in 1..Len(call.val)} = followed_posts(1, call.a)
       /\ \A i, j \in 1..Len(call.val) :
             i < j => posts[call.val[i]].timestamp >= posts[call.val[j]].timestamp

\* The mirror holds a follow record under the key of pair p.
MirrorHasFollow(p) == \E e \in mirror : e.key = FollowKey(p[1], p[2])

\* C16 (as claimed): set_follow(A,B) puts its record under the key made of
\* A's id and B's id and set_unfollow(A,B) deletes that key; so once the
\* calls are committed the mirror holds a follow record for a pair exactly
\* when the follows table holds the edge.
C16_MirrorKeyedByPair ==
    /\ (call.op = "set_follow" /\ call.mops # <<>>)
          => call.mops[1].key = FollowKey(call.a, call.b)
    /\ (call.op = "set_unfollow" /\ call.mops # <<>>)
          => call.mops[1].key = FollowKey(call.a, call.b)
    /\ (call.op = "commit" /\ call.ret = "None")
          => \A p \in Pairs : MirrorHasFollow(p) <=> follows[p] >= 1

\* C17 (as claimed): when a handler has made its mirror call, primary storage
\* holds the mutation the call reports: the edge of set_follow, the absence
\* of the edge of set_unfollow, the user columns of confirm and
\* update_last_seen, the roles of update_roles; and, after a rollback too,
\* the mirror shows no user as confirmed who is not confirmed in the users
\* table.
C17_MirrorAfterDurable ==
    /\ (call.op = "set_follow" /\ call.mops # <<>>)
          => follows[<<call.a, call.b>>] >= 1
    /\ (call.op = "set_unfollow" /\ call.mops # <<>>)
          => follows[<<call.a, call.b>>] = 0
    /\ (call.op \in {"confirm", "update_last_seen"} /\ call.mops # <<>>)
          => /\ users[call.a].confirmed = call.mops[1].value.confrim
             /\ users[call.a].last_seen = call.mops[1].value.last_seen
    /\ (call.op = "update_roles" /\ call.mops # <<>>)
          => \A k \in 1..Len(RoleDefs) : \E i \in 1..Len(roles) : roles[i] = RoleDefs[k]
    /\ \A e \in mirror, u \in DOMAIN users :
          (e.key = UserKey(u) /\ e.value.confrim) => users[u].confirmed

\* C18: set_follow(A,B) and set_unfollow(A,B) change no edge but (A,B), the
\* reverse edge (B,A) included, in the stored table and in the caller's
\* view; and is_following(A,B) equals is_followed_by(B,A) in every state.
C18_DirectedEdges ==
    [][ /\ \A a \in Ids, b \in Ids :
              (Called(call', "set_follow", 1, a, b) \/ Called(call', "set_unfollow", 1, a, b))
              => \A p \in Pairs \ {<<a, b>>} :
                    FollowRows(1, p)' = FollowRows(1, p) /\ follows'[p] = follows[p]
        /\ \A a \in Ids, b \in Ids :
              is_following(1, a, b)' = is_followed_by(1, b, a)'
      ]_vars

\* C18 witness: set_follow(A,B) has just added the edge (A,B) for two
\* different users, and the reverse edge (B,A) does not exist.
C18_Witness ==
    /\ call.op = "set_follow" /\ call.mops # <<>> /\ call.a # call.b
    /\ is_following(1, call.a, call.b) /\ is_followed_by(1, call.b, call.a)
    /\ ~is_following(1, call.b, call.a) /\ ~is_followed_by(1, call.a, call.b)

\* The handlers C19 names.
CoreOps == {"confirm", "update_last_seen", "set_follow", "set_unfollow", "update_roles"}

\* C19: a user whose confirmed is true keeps it true: no step changes a
\* stored confirmed from true to false, and no call of confirm (whatever the
\* token), update_last_seen, set_follow, set_unfollow or update_roles changes
\* it from true to false in the caller's view.
C19_ConfirmedMonotone ==
    [][ \A u \in Ids :
          /\ users[u].confirmed => users'[u].confirmed
          /\ (call'.op \in CoreOps /\ UserRow(1, u).confirmed)
                => UserRow(1, u)'.confirmed
      ]_vars

\* C19 witness: confirm was called on a confirmed user with a token that is
\* not valid (expired, forged or for another purpose) and the user is still
\* confirmed, after update_last_seen had rewritten the row.
C19_Witness ==
    /\ call.op = "confirm" /\ call.ret = "False"
    /\ users[call.a].confirmed /\ UserRow(1, call.a).confirmed
    /\ UserRow(1, call.a).last_seen > 0

====
